---- MODULE Spec2Model ----
(***************************************************************************)
(* A model of the two Streamlit dashboards of gcpyreport:                  *)
(*   report.py      usage metrics: flatten_data, the date filter, the      *)
(*                  derived metrics and the grouped tables of main()       *)
(*   seatreport.py  seat management: process_data, the sidebar filters and *)
(*                  the metrics that follow                                *)
(* One run of a script is one behaviour: the input text and the widget     *)
(* values are chosen, then the script's statements run in order until the  *)
(* script ends, is stopped (st.stop) or raises.                            *)
(*                                                                         *)
(* Representation.                                                         *)
(*   - An optional dict key is a sequence of length 0 (key absent) or 1.   *)
(*     In a table cell, <<>> is pandas' missing value (None / NaN / NaT).  *)
(*   - A seat field that JSON may also give as null is a record            *)
(*     [st |-> "absent" | "null" | "val", v |-> ...].                      *)
(*   - A timestamp is day * 2 + tod, tod = 0 for midnight (what a plain    *)
(*     date string parses to) and 1 for a later time of that day.          *)
(*   - A float is [k |-> "fin" | "nan" | "inf" | "ninf", n, d]: the exact  *)
(*     fraction n/d in lowest terms when k = "fin".                        *)
(*   - A DataFrame is [columns |-> set of names, rows |-> sequence].       *)
(***************************************************************************)
EXTENDS Integers, Sequences, FiniteSets, TLC

\* ------------------------------------------------------------- bounds
MaxRecords == 2
MaxDay == 2
MaxSeats == 2

\* ------------------------------------------------------------- options
Absent == <<>>
Some(v) == <<v>>
\* dict.get(key, default) on an optional key.
GetOr(o, default) == IF o = <<>> THEN default ELSE o[1]

\* ------------------------------------------------------------- time
TimeOfDay == {0, 1}
Stamp(day, tod) == day * 2 + tod
\* Timestamp.date()
DateOf(ts) == ts \div 2
\* pd.to_datetime / pd.Timestamp of a datetime.date: midnight of that day.
ToDatetime(day) == day * 2
Days == 1..MaxDay
\* ------------------------------------------------------------- floats
RECURSIVE GCD(_, _)
GCD(a, b) == IF b = 0 THEN a ELSE GCD(b, a % b)
Abs(a) == IF a < 0 THEN 0 - a ELSE a
NaN == [k |-> "nan", n |-> 0, d |-> 1]
Inf == [k |-> "inf", n |-> 1, d |-> 1]
NegInf == [k |-> "ninf", n |-> 0 - 1, d |-> 1]
Fin(n, d) ==
    LET g == GCD(Abs(n), d)
    IN  [k |-> "fin", n |-> n \div g, d |-> d \div g]
IsNa(x) == x.k = "nan"

\* int64 / int64 in pandas and numpy: true division, x/0 is +-inf, 0/0 is NaN.
TrueDiv(a, b) ==
    IF b = 0
    THEN IF a = 0 THEN NaN ELSE IF a > 0 THEN Inf ELSE NegInf
    ELSE Fin(a, b)
\* x * 100
Times100(x) == IF x.k = "fin" THEN Fin(x.n * 100, x.d) ELSE x
FAdd(x, y) ==
    CASE x.k = "nan" \/ y.k = "nan" -> NaN
      [] x.k = "fin" /\ y.k = "fin" -> Fin(x.n * y.d + y.n * x.d, x.d * y.d)
      [] x.k = "fin" -> y
      [] y.k = "fin" -> x
      [] x.k = y.k -> x
      [] OTHER -> NaN
FNeg(x) ==
    CASE x.k = "fin" -> Fin(0 - x.n, x.d)
      [] x.k = "inf" -> NegInf
      [] x.k = "ninf" -> Inf
      [] OTHER -> NaN
FSub(x, y) == FAdd(x, FNeg(y))
\* round(x, 2): to the nearest hundredth, ties to even.
Round2(x) ==
    IF x.k # "fin" THEN x
    ELSE LET q == (x.n * 100) \div x.d
             r == (x.n * 100) % x.d
             up == \/ 2 * r > x.d
                   \/ 2 * r = x.d /\ q % 2 = 1
         IN  Fin(IF up THEN q + 1 ELSE q, 100)

\* ------------------------------------------------------------- sequences
RECURSIVE SumSeq(_)
SumSeq(s) == IF s = <<>> THEN 0 ELSE s[1] + SumSeq(Tail(s))
RECURSIVE FSumSeq(_)
FSumSeq(s) == IF s = <<>> THEN Fin(0, 1) ELSE FAdd(s[1], FSumSeq(Tail(s)))
Column(rows, c) == [i \in 1..Len(rows) |-> rows[i][c]]
SeqsUpTo(S, n) == UNION {[1..k -> S] : k \in 0..n}
Range(s) == {s[i] : i \in 1..Len(s)}
MinOf(S) == CHOOSE x \in S : \A y \in S : x <= y
MaxOf(S) == CHOOSE x \in S : \A y \in S : x >= y
\* Series.mean(): missing values are skipped; NaN when nothing is left.
MeanSkipNa(s) ==
    LET kept == SelectSeq(s, LAMBDA x : ~IsNa(x))
        total == FSumSeq(kept)
    IN  IF kept = <<>> THEN NaN
        ELSE IF total.k = "fin" THEN Fin(total.n, total.d * Len(kept)) ELSE total


\* ------------------------------------------------------------- usage input
\* A date field: "YYYY-MM-DD" (time absent) or a date-time string of that day.
DateStrings == {[day |-> d, time |-> t] : d \in Days, t \in {Absent, Some(1)}}
\* pd.to_datetime(entry.get('date'))
ParseDate(s) == Stamp(s.day, GetOr(s.time, 0))

ChatModel(name, custom, chats, engaged, copies, insertions) ==
    [name |-> name, is_custom_model |-> custom, total_chats |-> chats,
     total_engaged_users |-> engaged, total_chat_copy_events |-> copies,
     total_chat_insertion_events |-> insertions]
Language(name, engaged, acceptances, suggestions, lines_accepted, lines_suggested) ==
    [name |-> name, total_engaged_users |-> engaged,
     total_code_acceptances |-> acceptances, total_code_suggestions |-> suggestions,
     total_code_lines_accepted |-> lines_accepted,
     total_code_lines_suggested |-> lines_suggested]
CodeModel(name, custom, languages) ==
    [name |-> name, is_custom_model |-> custom, languages |-> languages]
Editor(name, models) == [name |-> name, models |-> models]
Block(engaged, editors) == [total_engaged_users |-> engaged, editors |-> editors]
Entry(date, active, engaged, chat, code, dotcom_chat, dotcom_pr) ==
    [obj |-> TRUE, date |-> date, total_active_users |-> active,
     total_engaged_users |-> engaged, copilot_ide_chat |-> chat,
     copilot_ide_code_completions |-> code, copilot_dotcom_chat |-> dotcom_chat,
     copilot_dotcom_pull_requests |-> dotcom_pr]

\* Every key present, several editors, models and languages.
FullEntry(date) ==
    Entry(date, Some(4), Some(2),
      Some(Block(Some(2), Some(<<
        Editor(Some("vscode"), Some(<<
          ChatModel(Some("gpt"), Some(FALSE), Some(5), Some(2), Some(1), Some(3)),
          ChatModel(Some("custom"), Some(TRUE), Some(2), Some(1), Some(0), Some(1))>>)),
        Editor(Some("jetbrains"), Some(<<
          ChatModel(Some("gpt"), Some(FALSE), Some(3), Some(1), Some(2), Some(0))>>))>>))),
      Some(Block(Some(2), Some(<<
        Editor(Some("vscode"), Some(<<
          CodeModel(Some("gpt"), Some(FALSE), Some(<<
            Language(Some("python"), Some(2), Some(1), Some(2), Some(3), Some(6)),
            Language(Some("go"), Some(1), Some(0), Some(0), Some(0), Some(0))>>))>>)),
        Editor(Some("jetbrains"), Some(<<
          CodeModel(Some("custom"), Some(TRUE), Some(<<
            Language(Some("python"), Some(1), Some(1), Some(1), Some(2), Some(2))>>))>>))>>))),
      Some(Block(Some(1), Absent)), Some(Block(Some(1), Absent)))
\* No chat editors; the completions block with keys missing at every level.
SparseCodeEntry(date) ==
    Entry(date, Some(2), Absent,
      Some(Block(Some(1), Absent)),
      Some(Block(Absent, Some(<<
        Editor(Some("jetbrains"), Some(<<
          CodeModel(Absent, Absent, Some(<<
            Language(Some("python"), Absent, Absent, Absent, Absent, Absent),
            Language(Some("go"), Some(1), Some(1), Absent, Some(1), Absent)>>)),
          CodeModel(Some("gpt"), Some(FALSE), Absent)>>)),
        Editor(Absent, Absent)>>))),
      Absent, Some(Block(Absent, Absent)))
\* No completions block; the chat block with keys missing at every level.
SparseChatEntry(date) ==
    Entry(date, Absent, Some(1),
      Some(Block(Absent, Some(<<
        Editor(Absent, Some(<<
          ChatModel(Absent, Absent, Some(4), Absent, Absent, Absent)>>)),
        Editor(Some("vscode"), Some(<<
          ChatModel(Some("gpt"), Absent, Some(1), Absent, Some(1), Absent)>>)),
        Editor(Some("jetbrains"), Absent)>>))),
      Absent, Some(Block(Some(1), Absent)), Absent)
\* Only the date.
BareEntry(date) == Entry(date, Absent, Absent, Absent, Absent, Absent, Absent)
\* An array element that is not a JSON object (a string, a number).
NonObject ==
    [obj |-> FALSE, date |-> [day |-> 1, time |-> Absent], total_active_users |-> Absent,
     total_engaged_users |-> Absent, copilot_ide_chat |-> Absent,
     copilot_ide_code_completions |-> Absent, copilot_dotcom_chat |-> Absent,
     copilot_dotcom_pull_requests |-> Absent]

Entries ==
    {NonObject} \cup
    UNION {{FullEntry(d), SparseCodeEntry(d), SparseChatEntry(d), BareEntry(d)} :
             d \in DateStrings}
UsageInputs ==
    {[text |-> "empty", value |-> <<>>], [text |-> "malformed", value |-> <<>>]} \cup
    {[text |-> "json", value |-> v] : v \in SeqsUpTo(Entries, MaxRecords)}

\* ------------------------------------------------------------- DataFrame
\* A name no statement has bound yet.
NoFrame == [exists |-> FALSE, columns |-> {}, rows |-> <<>>]
\* pd.DataFrame(list of dicts): the columns are the dicts' keys, so a frame
\* built from an empty list has no columns.
DataFrame(rows, keys) ==
    [exists |-> TRUE, columns |-> IF rows = <<>> THEN {} ELSE keys, rows |-> rows]

SummaryColumns ==
    {"date", "total_active_users", "total_engaged_users",
     "copilot_ide_chat_total_engaged_users",
     "copilot_ide_code_completions_total_engaged_users",
     "copilot_dotcom_chat_total_engaged_users",
     "copilot_dotcom_pull_requests_total_engaged_users"}
ChatColumns ==
    {"date", "editor", "model", "is_custom_model", "total_chats", "total_engaged_users",
     "total_chat_copy_events", "total_chat_insertion_events"}
CompletionColumns ==
    {"date", "editor", "model", "is_custom_model", "language", "total_engaged_users",
     "total_code_acceptances", "total_code_suggestions", "total_code_lines_accepted",
     "total_code_lines_suggested"}

\* ------------------------------------------------------------- flatten_data
\* entry.get('copilot_ide_chat', {}): the default is the empty dict.
EmptyDict == Block(Absent, Absent)

ChatRow(date, editor_name, model) ==
    [date |-> date, editor |-> editor_name, model |-> model.name,
     is_custom_model |-> GetOr(model.is_custom_model, FALSE),
     total_chats |-> GetOr(model.total_chats, 0),
     total_engaged_users |-> GetOr(model.total_engaged_users, 0),
     total_chat_copy_events |-> GetOr(model.total_chat_copy_events, 0),
     total_chat_insertion_events |-> GetOr(model.total_chat_insertion_events, 0)]
CompletionRow(date, editor_name, model_name, is_custom_model, lang) ==
    [date |-> date, editor |-> editor_name, model |-> model_name,
     is_custom_model |-> is_custom_model, language |-> lang.name,
     total_engaged_users |-> GetOr(lang.total_engaged_users, 0),
     total_code_acceptances |-> GetOr(lang.total_code_acceptances, 0),
     total_code_suggestions |-> GetOr(lang.total_code_suggestions, 0),
     total_code_lines_accepted |-> GetOr(lang.total_code_lines_accepted, 0),
     total_code_lines_suggested |-> GetOr(lang.total_code_lines_suggested, 0)]
SummaryRow(date, entry, ide_chat, ide_code) ==
    [date |-> date,
     total_active_users |-> GetOr(entry.total_active_users, 0),
     total_engaged_users |-> GetOr(entry.total_engaged_users, 0),
     copilot_ide_chat_total_engaged_users |-> GetOr(ide_chat.total_engaged_users, 0),
     copilot_ide_code_completions_total_engaged_users |->
         GetOr(ide_code.total_engaged_users, 0),
     copilot_dotcom_chat_total_engaged_users |->
         GetOr(GetOr(entry.copilot_dotcom_chat, EmptyDict).total_engaged_users, 0),
     copilot_dotcom_pull_requests_total_engaged_users |->
         GetOr(GetOr(entry.copilot_dotcom_pull_requests, EmptyDict).total_engaged_users, 0)]

\* for model in editor.get('models', []): ide_chat_data.append({...})
ChatModelLoop_FirstOnly(ide_chat_data, date, editor_name, models) ==
    IF models = <<>> THEN ide_chat_data
    ELSE Append(ide_chat_data, ChatRow(date, editor_name, models[1]))
RECURSIVE ChatModelLoop(_, _, _, _)
ChatModelLoop(ide_chat_data, date, editor_name, models) ==
    IF models = <<>> THEN ide_chat_data
    ELSE ChatModelLoop(Append(ide_chat_data, ChatRow(date, editor_name, models[1])),
                       date, editor_name, Tail(models))
\* for editor in ide_chat.get('editors', []):
RECURSIVE ChatEditorLoop(_, _, _)
ChatEditorLoop(ide_chat_data, date, editors) ==
    IF editors = <<>> THEN ide_chat_data
    ELSE ChatEditorLoop(
           ChatModelLoop(ide_chat_data, date, editors[1].name,
                         GetOr(editors[1].models, <<>>)),
           date, Tail(editors))
\* for lang in model.get('languages', []): code_completion_data.append({...})
RECURSIVE LanguageLoop(_, _, _, _, _, _)
LanguageLoop(code_completion_data, date, editor_name, model_name, is_custom_model, languages) ==
    IF languages = <<>> THEN code_completion_data
    ELSE LanguageLoop(
           Append(code_completion_data,
                  CompletionRow(date, editor_name, model_name, is_custom_model, languages[1])),
           date, editor_name, model_name, is_custom_model, Tail(languages))
\* for model in editor.get('models', []):
RECURSIVE CodeModelLoop(_, _, _, _)
CodeModelLoop(code_completion_data, date, editor_name, models) ==
    IF models = <<>> THEN code_completion_data
    ELSE CodeModelLoop(
           LanguageLoop(code_completion_data, date, editor_name, models[1].name,
                        GetOr(models[1].is_custom_model, FALSE),
                        GetOr(models[1].languages, <<>>)),
           date, editor_name, Tail(models))
\* for editor in ide_code.get('editors', []):
RECURSIVE CodeEditorLoop(_, _, _)
CodeEditorLoop(code_completion_data, date, editors) ==
    IF editors = <<>> THEN code_completion_data
    ELSE CodeEditorLoop(
           CodeModelLoop(code_completion_data, date, editors[1].name,
                         GetOr(editors[1].models, <<>>)),
           date, Tail(editors))
\* entry.get(...) raises AttributeError on an element that is no dict, and on
\* nothing else: a missing key yields the default.
EntryRaises_Indexing(entry) == ~entry.obj \/ entry.copilot_ide_chat = Absent
EntryRaises(entry) == ~entry.obj
\* for entry in data: ... ; when an element raises, the lists built so far are
\* dropped with the call's frame.
RECURSIVE EntryLoop(_, _, _, _)
EntryLoop(rows, ide_chat_data, code_completion_data, data) ==
    IF data = <<>>
    THEN [ok |-> TRUE, rows |-> rows, ide_chat_data |-> ide_chat_data,
          code_completion_data |-> code_completion_data]
    ELSE LET entry == data[1]
             date == ParseDate(entry.date)
             ide_chat == GetOr(entry.copilot_ide_chat, EmptyDict)
             ide_code == GetOr(entry.copilot_ide_code_completions, EmptyDict)
         IN  IF EntryRaises(entry)
             THEN [ok |-> FALSE, rows |-> rows, ide_chat_data |-> ide_chat_data,
                   code_completion_data |-> code_completion_data]
             ELSE EntryLoop(
                    Append(rows, SummaryRow(date, entry, ide_chat, ide_code)),
                    ChatEditorLoop(ide_chat_data, date, GetOr(ide_chat.editors, <<>>)),
                    CodeEditorLoop(code_completion_data, date, GetOr(ide_code.editors, <<>>)),
                    Tail(data))
flatten_data(data) ==
    LET r == EntryLoop(<<>>, <<>>, <<>>, data)
    IN  IF r.ok
        THEN [ok |-> TRUE, df |-> DataFrame(r.rows, SummaryColumns),
              ide_chat_df |-> DataFrame(r.ide_chat_data, ChatColumns),
              code_completion_df |-> DataFrame(r.code_completion_data, CompletionColumns)]
        ELSE [ok |-> FALSE, df |-> NoFrame, ide_chat_df |-> NoFrame,
              code_completion_df |-> NoFrame]
process_data(data) == flatten_data(data)

\* ------------------------------------------------------------- aggregation
\* The keys groupby() sorts by, in sorted order.
EditorNames == <<"jetbrains", "vscode">>
LanguageNames == <<"go", "python">>
TeamNames == <<"core", "web">>

\* frame.groupby(key).agg({c: 'sum' for c in cols}).reset_index(): one row per
\* key value in sorted key order; rows whose key is missing are dropped.
GroupSum(rows, key, cols, universe) ==
    LET present == SelectSeq(universe, LAMBDA k : \E i \in 1..Len(rows) : rows[i][key] = Some(k))
    IN  [g \in 1..Len(present) |->
           LET members == SelectSeq(rows, LAMBDA r : r[key] = Some(present[g]))
           IN  [c \in {key} \cup cols |->
                  IF c = key THEN Some(present[g]) ELSE SumSeq(Column(members, c))]]
\* total_row: the sentinel label and the column sums of the grouped frame.
TotalRow_Ungrouped(metrics, rows, key, cols) ==
    [c \in {key} \cup cols |-> IF c = key THEN Some("TOTAL") ELSE SumSeq(Column(rows, c))]
TotalRow(metrics, rows, key, cols) ==
    [c \in {key} \cup cols |-> IF c = key THEN Some("TOTAL") ELSE SumSeq(Column(metrics, c))]
\* pd.concat([metrics, total_row], ignore_index=True)
Concat(metrics, total_row) == metrics \o <<total_row>>
WithTotal(rows, key, cols, universe) ==
    LET metrics == GroupSum(rows, key, cols, universe)
    IN  Concat(metrics, TotalRow(metrics, rows, key, cols))
ChatMetricColumns ==
    {"total_chats", "total_engaged_users", "total_chat_copy_events",
     "total_chat_insertion_events"}
CompletionMetricColumns ==
    {"total_code_suggestions", "total_code_acceptances", "total_code_lines_suggested",
     "total_code_lines_accepted"}

\* code_completion_df['acceptance_rate'] = acceptances / suggestions * 100
AcceptanceRate(row) ==
    Times100(TrueDiv(row.total_code_acceptances, row.total_code_suggestions))
WithAcceptanceRate(rows) ==
    [i \in 1..Len(rows) |->
       [c \in DOMAIN rows[i] \cup {"acceptance_rate"} |->
          IF c = "acceptance_rate" THEN AcceptanceRate(rows[i]) ELSE rows[i][c]]]
\* code_completion_df.groupby('language')['acceptance_rate'].mean().reset_index()
MeanAcceptance(rows) ==
    LET present == SelectSeq(LanguageNames,
                             LAMBDA k : \E i \in 1..Len(rows) : rows[i].language = Some(k))
    IN  [g \in 1..Len(present) |->
           [language |-> Some(present[g]),
            acceptance_rate |->
              MeanSkipNa(Column(SelectSeq(rows, LAMBDA r : r.language = Some(present[g])),
                                "acceptance_rate"))]]
\* The delta of the "Average Daily Engagement Rate" metric: iloc[-1] against iloc[0].
EngagementDelta(rows) ==
    LET last == rows[Len(rows)]
        first == rows[1]
    IN  Round2(Times100(FSub(TrueDiv(last.total_engaged_users, last.total_active_users),
                             TrueDiv(first.total_engaged_users, first.total_active_users))))

\* ------------------------------------------------------------- seat input
\* A key of a seat record: missing, JSON null, or a value.
FieldAbsent(dummy) == [st |-> "absent", v |-> dummy]
FieldNull(dummy) == [st |-> "null", v |-> dummy]
FieldVal(v) == [st |-> "val", v |-> v]
Team(name, id) == [name |-> name, id |-> id]
Assignee(login, type, id) == [login |-> login, type |-> type, id |-> id]
NoTeam == Team(Absent, Absent)
NoAssignee == Assignee(Absent, Absent, Absent)
Seat(created_at, last_activity_at, assigning_team, assignee) ==
    [created_at |-> created_at, last_activity_at |-> last_activity_at,
     assigning_team |-> assigning_team, assignee |-> assignee,
     last_activity_editor |-> "vscode", plan_type |-> "business"]

\* created_at is a date-time string of the day; an active seat was last
\* active on the day it was created.
CreatedAt(d) == [day |-> d, time |-> Some(1)]
ActiveCoreSeat(d) ==
    Seat(CreatedAt(d), FieldVal(CreatedAt(d)), FieldVal(Team(Some("core"), Some(1))),
         FieldVal(Assignee(Some("alice"), Some("User"), Some(7))))
IdleWebSeat(d) ==
    Seat(CreatedAt(d), FieldNull(CreatedAt(d)), FieldVal(Team(Some("web"), Some(2))),
         FieldNull(NoAssignee))
NullSeat(d) ==
    Seat(CreatedAt(d), FieldAbsent(CreatedAt(d)), FieldNull(NoTeam), FieldNull(NoAssignee))
BareSeat(d) ==
    Seat(CreatedAt(d), FieldAbsent(CreatedAt(d)), FieldAbsent(NoTeam),
         FieldAbsent(NoAssignee))
UnownedCoreSeat(d) ==
    Seat(CreatedAt(d), FieldVal(CreatedAt(d)), FieldVal(Team(Some("core"), Some(1))),
         FieldAbsent(NoAssignee))
\* A seat of a named team and user that has never been active: no
\* last_activity_at key.
NewCoreSeat(d) ==
    Seat(CreatedAt(d), FieldAbsent(CreatedAt(d)), FieldVal(Team(Some("core"), Some(1))),
         FieldVal(Assignee(Some("alice"), Some("User"), Some(7))))
Seats ==
    UNION {{ActiveCoreSeat(d), IdleWebSeat(d), NullSeat(d), BareSeat(d), UnownedCoreSeat(d),
            NewCoreSeat(d)} :
             d \in Days}
Payload(obj, total, seats) == [obj |-> obj, total_seats |-> total, seats |-> seats]
\* The root is an object with or without its keys, or no object at all.
Payloads ==
    {Payload(FALSE, Absent, Absent)} \cup
    {Payload(TRUE, t, Absent) : t \in {Absent, Some(5)}} \cup
    {Payload(TRUE, t, Some(s)) : t \in {Absent, Some(5)}, s \in SeqsUpTo(Seats, MaxSeats)}
SeatInputs ==
    {[text |-> "empty", value |-> Payload(TRUE, Absent, Absent)],
     [text |-> "malformed", value |-> Payload(TRUE, Absent, Absent)]} \cup
    {[text |-> "json", value |-> v] : v \in Payloads}

\* ------------------------------------------------------------- seatreport.py process_data
SeatKeys ==
    {"created_at", "last_activity_at", "assigning_team", "assignee",
     "last_activity_editor", "plan_type"}
OptionalSeatKeys == {"last_activity_at", "assigning_team", "assignee"}
HasKey(seat, key) == key \notin OptionalSeatKeys \/ seat[key].st # "absent"
\* pd.DataFrame(list of dicts): a column for every key some dict has.
SeatColumns(seats) == {key \in SeatKeys : \E i \in 1..Len(seats) : HasKey(seats[i], key)}
\* pd.to_datetime on a column: missing and null become NaT.
ToDatetimeCell(field) == IF field.st = "val" THEN Some(ParseDate(field.v)) ELSE Absent
\* df[col].apply(lambda x: x.get(key) if x else None): None is falsy; the NaN
\* that fills a dict without the key is truthy and has no .get.
ApplyRaises(seats, col) ==
    col \in SeatColumns(seats) /\ \E i \in 1..Len(seats) : seats[i][col].st = "absent"
ApplyGet(field, key) == IF field.st = "val" THEN field.v[key] ELSE Absent
DerivedColumns(columns) ==
    (IF "assigning_team" \in columns THEN {"team_name", "team_id"} ELSE {}) \cup
    (IF "assignee" \in columns THEN {"user_login", "user_type", "user_id"} ELSE {}) \cup
    {"total_available_seats"}
SeatCell(seat, col, total) ==
    CASE col = "created_at" -> ParseDate(seat.created_at)
      [] col = "last_activity_at" -> ToDatetimeCell(seat.last_activity_at)
      [] col = "team_name" -> ApplyGet(seat.assigning_team, "name")
      [] col = "team_id" -> ApplyGet(seat.assigning_team, "id")
      [] col = "user_login" -> ApplyGet(seat.assignee, "login")
      [] col = "user_type" -> ApplyGet(seat.assignee, "type")
      [] col = "user_id" -> ApplyGet(seat.assignee, "id")
      [] col = "total_available_seats" -> total
      [] OTHER -> seat[col]
\* df['total_available_seats'] = json_data.get('total_seats', 0)
RootTotal(json_data) == GetOr(json_data.total_seats, 0)
seat_process_data(json_data) ==
    IF ~json_data.obj THEN [ok |-> FALSE, df |-> NoFrame]
    ELSE LET seats == GetOr(json_data.seats, <<>>)
             raw == SeatColumns(seats)
             columns == raw \cup DerivedColumns(raw)
         IN  IF seats = <<>> THEN [ok |-> TRUE, df |-> DataFrame(<<>>, {})]
             ELSE IF ApplyRaises(seats, "assigning_team") \/ ApplyRaises(seats, "assignee")
             THEN [ok |-> FALSE, df |-> NoFrame]
             ELSE [ok |-> TRUE,
                   df |-> DataFrame(
                            [i \in 1..Len(seats) |->
                               [c \in columns |-> SeatCell(seats[i], c, RootTotal(json_data))]],
                            columns)]

\* ------------------------------------------------------------- state
VARIABLES
    app,                  \* which script runs: "report" or "seat"
    json_input,           \* the text of the sidebar text area
    pc,                   \* the statement the script has reached
    data,                 \* json.loads(json_input)
    df, ide_chat_df, code_completion_df,      \* report.py's three frames
    start_date, end_date, \* report.py's date inputs
    fig_acceptance,       \* the per-language mean acceptance rate
    delta,                \* the engagement metric's delta
    ide_chat_metrics, code_completion_metrics,
    filtered_df, date_range, selected_team,   \* seatreport.py's filters
    total_seats, assigned_seats, active_users, unassigned_seats,
    team_summary,
    shown,                \* what st.* has displayed so far, in order
    error,                \* the message st.error / st.warning displayed
    raised                \* the exception that ended the run

vars == <<app, json_input, pc, data, df, ide_chat_df, code_completion_df, start_date,
          end_date, fig_acceptance, delta, ide_chat_metrics, code_completion_metrics,
          filtered_df, date_range, selected_team, total_seats, assigned_seats,
          active_users, unassigned_seats, team_summary, shown, error, raised>>
reportVars == <<df, ide_chat_df, code_completion_df, start_date, end_date, fig_acceptance,
                delta, ide_chat_metrics, code_completion_metrics>>
seatVars == <<filtered_df, date_range, selected_team, total_seats, assigned_seats,
              active_users, unassigned_seats, team_summary>>

NoException == [exc |-> "none", at |-> "none"]
Exception(exc, at) == [exc |-> exc, at |-> at]

\* Nothing is bound, displayed or raised before the script's first statement.
Unbound ==
    /\ pc = "start"
    /\ filtered_df = NoFrame /\ date_range = <<>> /\ selected_team = Absent
    /\ total_seats = Absent /\ assigned_seats = Absent /\ active_users = Absent
    /\ unassigned_seats = Absent
    /\ team_summary = <<>>
    /\ df = NoFrame /\ ide_chat_df = NoFrame /\ code_completion_df = NoFrame
    /\ start_date = 0 /\ end_date = 0
    /\ fig_acceptance = <<>>
    /\ delta = Absent
    /\ ide_chat_metrics = <<>> /\ code_completion_metrics = <<>>
    /\ shown = <<>>
    /\ error = "none"
    /\ raised = NoException

InitReport ==
    /\ app = "report"
    /\ json_input \in UsageInputs
    /\ data = <<>>
    /\ Unbound

InitSeat ==
    /\ app = "seat"
    /\ json_input \in SeatInputs
    /\ data = Payload(TRUE, Absent, Absent)
    /\ Unbound

\* ------------------------------------------------------------- report.py main()
\* except Exception as e: st.error(f"Error processing data: ..."); st.info(...)
ReportExcept(exc, at) ==
    /\ error' = "Error processing data"
    /\ raised' = Exception(exc, at)
    /\ pc' = "error"

default_data == <<>>

\* Lines 165-173: json.loads, then process_data.
ReportLoad ==
    /\ UNCHANGED seatVars
    /\ app = "report" /\ pc = "start"
    /\ IF json_input.text = "malformed"
       THEN /\ ReportExcept("JSONDecodeError", "parse")
            /\ UNCHANGED <<data, df, ide_chat_df, code_completion_df>>
       ELSE LET parsed == IF json_input.text = "empty" THEN default_data
                          ELSE json_input.value
                r == process_data(parsed)
            IN  /\ data' = parsed
                /\ IF r.ok
                   THEN /\ df' = r.df
                        /\ ide_chat_df' = r.ide_chat_df
                        /\ code_completion_df' = r.code_completion_df
                        /\ pc' = "loaded"
                        /\ UNCHANGED <<error, raised>>
                   ELSE /\ ReportExcept("AttributeError", "flatten")
                        /\ UNCHANGED <<df, ide_chat_df, code_completion_df>>
    /\ UNCHANGED <<app, json_input, start_date, end_date, fig_acceptance, delta,
                   ide_chat_metrics, code_completion_metrics, shown>>

\* Lines 176-193: df['date'], its min and max, and the two date inputs, each
\* free within [min_date, max_date].
ReportDateInputs ==
    /\ UNCHANGED seatVars
    /\ app = "report" /\ pc = "loaded"
    /\ IF "date" \notin df.columns
       THEN /\ ReportExcept("KeyError", "date_inputs")
            /\ UNCHANGED <<start_date, end_date>>
       ELSE LET min_date == DateOf(MinOf(Range(Column(df.rows, "date"))))
                max_date == DateOf(MaxOf(Range(Column(df.rows, "date"))))
            IN  /\ start_date' \in min_date..max_date
                /\ end_date' \in min_date..max_date
                /\ pc' = "picked"
                /\ UNCHANGED <<error, raised>>
    /\ UNCHANGED <<app, json_input, data, df, ide_chat_df, code_completion_df,
                   fig_acceptance, delta, ide_chat_metrics, code_completion_metrics, shown>>

\* frame[(frame['date'] >= start) & (frame['date'] <= end)]
InRange(row, start, end) == row.date >= start /\ row.date <= end
\* frame[mask] keeps the columns and the rows the mask selects.
FilterByDate(frame, start, end) ==
    [frame EXCEPT !.rows = SelectSeq(@, LAMBDA row : InRange(row, start, end))]

\* Lines 195-211: the bounds become timestamps, each frame's date column is
\* read, and the three frames are filtered with the same bounds.
ReportFilter ==
    /\ UNCHANGED seatVars
    /\ app = "report" /\ pc = "picked"
    /\ start_date' = ToDatetime(start_date)
    /\ end_date' = ToDatetime(end_date)
    /\ IF "date" \notin ide_chat_df.columns \/ "date" \notin code_completion_df.columns
       THEN /\ ReportExcept("KeyError", "filter")
            /\ UNCHANGED <<df, ide_chat_df, code_completion_df>>
       ELSE /\ df' = FilterByDate(df, start_date', end_date')
            /\ ide_chat_df' = FilterByDate(ide_chat_df, start_date', end_date')
            /\ code_completion_df' = FilterByDate(code_completion_df, start_date', end_date')
            /\ pc' = "filtered"
            /\ UNCHANGED <<error, raised>>
    /\ UNCHANGED <<app, json_input, data, fig_acceptance, delta, ide_chat_metrics,
                   code_completion_metrics, shown>>

\* Lines 213-216: create_visualizations. The acceptance_rate column is added
\* and averaged per language. What the plotting library does with frames that
\* have no rows is not decided by this repository: either outcome is allowed.
ReportVisualize ==
    /\ UNCHANGED seatVars
    /\ app = "report" /\ pc = "filtered"
    /\ \/ /\ code_completion_df' =
               [code_completion_df EXCEPT
                  !.columns = @ \cup {"acceptance_rate"},
                  !.rows = WithAcceptanceRate(@)]
          /\ fig_acceptance' = MeanAcceptance(code_completion_df'.rows)
          /\ pc' = "visualized"
          /\ UNCHANGED <<error, raised>>
       \/ /\ df.rows = <<>>
          /\ ReportExcept("ValueError", "visualize")
          /\ UNCHANGED <<code_completion_df, fig_acceptance>>
    /\ UNCHANGED <<app, json_input, data, df, ide_chat_df, start_date, end_date, delta,
                   ide_chat_metrics, code_completion_metrics, shown>>

\* Lines 218-254: the header, the four totals, the user statistics. The delta
\* reads iloc[-1] and iloc[0], which raise IndexError on a frame without rows,
\* after the earlier metrics are on the page.
ReportMetrics ==
    /\ UNCHANGED seatVars
    /\ app = "report" /\ pc = "visualized"
    /\ IF df.rows = <<>>
       THEN /\ shown' = shown \o <<"date range", "totals", "daily users">>
            /\ ReportExcept("IndexError", "metrics")
            /\ UNCHANGED delta
       ELSE /\ shown' = shown \o <<"date range", "totals", "daily users",
                                   "engagement rate", "dotcom users">>
            /\ delta' = Some(EngagementDelta(df.rows))
            /\ pc' = "metrics"
            /\ UNCHANGED <<error, raised>>
    /\ UNCHANGED <<app, json_input, data, df, ide_chat_df, code_completion_df, start_date,
                   end_date, fig_acceptance, ide_chat_metrics, code_completion_metrics>>

\* Lines 256-334: the charts and the three tabs with the grouped tables.
ReportTabs ==
    /\ UNCHANGED seatVars
    /\ app = "report" /\ pc = "metrics"
    /\ ide_chat_metrics' = WithTotal(ide_chat_df.rows, "editor", ChatMetricColumns, EditorNames)
    /\ code_completion_metrics' =
           WithTotal(code_completion_df.rows, "language", CompletionMetricColumns,
                     LanguageNames)
    /\ shown' = shown \o <<"charts", "ide_chat_metrics", "code_completion_metrics",
                           "user_engagement_metrics">>
    /\ pc' = "done"
    /\ UNCHANGED <<app, json_input, data, df, ide_chat_df, code_completion_df, start_date,
                   end_date, fig_acceptance, delta, error, raised>>

NextReport ==
    \/ ReportLoad
    \/ ReportDateInputs
    \/ ReportFilter
    \/ ReportVisualize
    \/ ReportMetrics
    \/ ReportTabs

\* ------------------------------------------------------------- seatreport.py script
\* An exception outside the try block ends the run; Streamlit displays it.
SeatUncaught(exc, at) ==
    /\ error' = "uncaught exception"
    /\ raised' = Exception(exc, at)
    /\ pc' = "crashed"

\* Lines 61-73: json.loads and process_data inside the try block; st.stop()
\* after either message and after the warning for an empty text area.
SeatLoad_NoStop ==
    /\ app = "seat" /\ pc = "start"
    /\ pc' = "loaded"
    /\ data' = json_input.value
    /\ df' = LET r == seat_process_data(json_input.value)
             IN  IF r.ok THEN r.df ELSE DataFrame(<<>>, {})
    /\ error' = IF json_input.text = "json" THEN "none" ELSE "Invalid JSON format"
    /\ raised' = IF json_input.text = "malformed" THEN Exception("JSONDecodeError", "parse")
                 ELSE NoException
    /\ UNCHANGED <<app, json_input, ide_chat_df, code_completion_df, start_date, end_date,
                   fig_acceptance, delta, ide_chat_metrics, code_completion_metrics, shown>>
    /\ UNCHANGED seatVars
SeatLoad ==
    /\ app = "seat" /\ pc = "start"
    /\ CASE json_input.text = "empty" ->
              /\ error' = "Please paste your JSON data"
              /\ pc' = "stopped"
              /\ UNCHANGED <<data, df, raised>>
         [] json_input.text = "malformed" ->
              /\ error' = "Invalid JSON format"
              /\ raised' = Exception("JSONDecodeError", "parse")
              /\ pc' = "stopped"
              /\ UNCHANGED <<data, df>>
         [] OTHER ->
              LET r == seat_process_data(json_input.value)
              IN  /\ data' = json_input.value
                  /\ IF r.ok
                     THEN /\ df' = r.df
                          /\ pc' = "loaded"
                          /\ UNCHANGED <<error, raised>>
                     ELSE /\ error' = "Error processing data"
                          /\ raised' = Exception("AttributeError", "flatten")
                          /\ pc' = "stopped"
                          /\ UNCHANGED df
    /\ UNCHANGED <<app, json_input, ide_chat_df, code_completion_df, start_date, end_date,
                   fig_acceptance, delta, ide_chat_metrics, code_completion_metrics, shown>>
    /\ UNCHANGED seatVars

\* sorted(df['team_name'].unique().tolist()): None and a str do not compare.
UniqueTeams(frame) == Range(Column(frame.rows, "team_name"))
SortedTeams(teams) ==
    (IF Absent \in teams THEN <<Absent>> ELSE <<>>) \o
    SelectSeq([i \in 1..Len(TeamNames) |-> Some(TeamNames[i])], LAMBDA t : t \in teams)
\* st.date_input with a pair as its value: one date while the range is being
\* picked, else a pair with start <= end, within [min_date, max_date].
DateRanges(min_date, max_date) ==
    {<<d>> : d \in min_date..max_date} \cup
    {r \in (min_date..max_date) \X (min_date..max_date) : r[1] <= r[2]}

\* Lines 76-90: the date range and the team select box.
SeatSidebar ==
    /\ app = "seat" /\ pc = "loaded"
    /\ IF "created_at" \notin df.columns
       THEN /\ SeatUncaught("KeyError", "date_range")
            /\ UNCHANGED <<date_range, selected_team>>
       ELSE LET created == Range(Column(df.rows, "created_at"))
                min_date == DateOf(MinOf(created))
                max_date == DateOf(MaxOf(created))
            IN  /\ date_range' \in DateRanges(min_date, max_date)
                /\ IF "team_name" \notin df.columns
                   THEN /\ SeatUncaught("KeyError", "all_teams")
                        /\ UNCHANGED selected_team
                   ELSE IF Absent \in UniqueTeams(df) /\ UniqueTeams(df) # {Absent}
                   THEN /\ SeatUncaught("TypeError", "all_teams")
                        /\ UNCHANGED selected_team
                   ELSE /\ selected_team' \in
                              {Some("All Teams")} \cup Range(SortedTeams(UniqueTeams(df)))
                        /\ pc' = "picked"
                        /\ UNCHANGED <<error, raised>>
    /\ UNCHANGED <<app, json_input, data, shown, filtered_df, total_seats, assigned_seats,
                   active_users, unassigned_seats, team_summary>>
    /\ UNCHANGED reportVars

\* Lines 93-101: the date mask on created_at's date, then the team mask.
\* A comparison of the column with None is False in every row.
InDateRange(row, range) ==
    Len(range) = 2 => (DateOf(row.created_at) >= range[1] /\ DateOf(row.created_at) <= range[2])
InTeam(row, team) ==
    team # Some("All Teams") => (team # Absent /\ row.team_name = team)
SeatFilter ==
    /\ app = "seat" /\ pc = "picked"
    /\ filtered_df' =
           [df EXCEPT !.rows =
              SelectSeq(@, LAMBDA row : InDateRange(row, date_range) /\ InTeam(row, selected_team))]
    /\ pc' = "filtered"
    /\ UNCHANGED <<app, json_input, data, shown, error, raised, date_range, selected_team,
                   total_seats, assigned_seats, active_users, unassigned_seats,
                   team_summary>>
    /\ UNCHANGED reportVars

\* filtered_df['total_available_seats'].iloc[0] if not filtered_df.empty else 0
TotalSeatsOf(frame, json_data) ==
    IF frame.rows # <<>> THEN frame.rows[1].total_available_seats ELSE 0
CountNotNa(cells) == Len(SelectSeq(cells, LAMBDA cell : cell # Absent))

\* Lines 104-123: the four key metrics, each displayed as it is computed.
SeatMetrics ==
    /\ app = "seat" /\ pc = "filtered"
    /\ total_seats' = Some(TotalSeatsOf(filtered_df, data))
    /\ assigned_seats' = Some(Len(filtered_df.rows))
    /\ IF "last_activity_at" \notin filtered_df.columns
       THEN /\ shown' = shown \o <<"Total Available Seats", "Assigned Seats">>
            /\ SeatUncaught("KeyError", "active_users")
            /\ UNCHANGED <<active_users, unassigned_seats>>
       ELSE /\ active_users' = Some(CountNotNa(Column(filtered_df.rows, "last_activity_at")))
            /\ unassigned_seats' = Some(total_seats'[1] - assigned_seats'[1])
            /\ shown' = shown \o <<"Total Available Seats", "Assigned Seats",
                                   "Active Users", "Unassigned Seats">>
            /\ pc' = "metrics"
            /\ UNCHANGED <<error, raised>>
    /\ UNCHANGED <<app, json_input, data, filtered_df, date_range, selected_team,
                   team_summary>>
    /\ UNCHANGED reportVars

\* round(1) of Active Users / Total Users * 100
Round1(x) ==
    IF x.k # "fin" THEN x
    ELSE LET q == (x.n * 10) \div x.d
             r == (x.n * 10) % x.d
             up == \/ 2 * r > x.d
                   \/ 2 * r = x.d /\ q % 2 = 1
         IN  Fin(IF up THEN q + 1 ELSE q, 10)
\* filtered_df.groupby('team_name').agg(...): count of non-null logins, number
\* of non-null last activities, earliest created_at; then the derived columns.
TeamSummaryRows(rows) ==
    LET present == SelectSeq(TeamNames,
                             LAMBDA k : \E i \in 1..Len(rows) : rows[i].team_name = Some(k))
    IN  [g \in 1..Len(present) |->
           LET members == SelectSeq(rows, LAMBDA r : r.team_name = Some(present[g]))
               total == CountNotNa(Column(members, "user_login"))
               active == CountNotNa(Column(members, "last_activity_at"))
           IN  [Team |-> Some(present[g]), TotalUsers |-> total, ActiveUsers |-> active,
                FirstSeatCreated |-> DateOf(MinOf(Range(Column(members, "created_at")))),
                InactiveUsers |-> total - active,
                ActivePct |-> Round1(Times100(TrueDiv(active, total)))]]
\* sort_values('Total Users', ascending=False), equal totals keeping their order.
RECURSIVE InsertByTotal(_, _)
InsertByTotal(sorted, row) ==
    IF sorted = <<>> THEN <<row>>
    ELSE IF row.TotalUsers > sorted[1].TotalUsers THEN <<row>> \o sorted
    ELSE <<sorted[1]>> \o InsertByTotal(Tail(sorted), row)
RECURSIVE SortByTotal(_, _)
SortByTotal(sorted, rows) ==
    IF rows = <<>> THEN sorted
    ELSE SortByTotal(InsertByTotal(sorted, rows[1]), Tail(rows))

\* Lines 125-185: the two charts and the team summary. With no row left the
\* outcome rests on the libraries (the pie of nothing, .dt on an empty
\* aggregate), not on this repository: either outcome is allowed.
SeatSummary ==
    /\ app = "seat" /\ pc = "metrics"
    /\ \/ /\ "user_login" \notin filtered_df.columns
          /\ shown' = shown \o <<"Team Distribution", "Activity Timeline">>
          /\ SeatUncaught("KeyError", "team_summary")
          /\ UNCHANGED team_summary
       \/ /\ "user_login" \in filtered_df.columns
          /\ team_summary' = SortByTotal(<<>>, TeamSummaryRows(filtered_df.rows))
          /\ shown' = shown \o <<"Team Distribution", "Activity Timeline", "team_summary">>
          /\ pc' = "summary"
          /\ UNCHANGED <<error, raised>>
       \/ /\ filtered_df.rows = <<>>
          /\ "user_login" \in filtered_df.columns
          /\ shown' = shown \o <<"Team Distribution", "Activity Timeline">>
          /\ SeatUncaught("AttributeError", "team_summary")
          /\ UNCHANGED team_summary
    /\ UNCHANGED <<app, json_input, data, filtered_df, date_range, selected_team,
                   total_seats, assigned_seats, active_users, unassigned_seats>>
    /\ UNCHANGED reportVars

\* Lines 187-221: the detailed table, and the CSV download when the button
\* is pressed.
SeatDetail ==
    /\ app = "seat" /\ pc = "summary"
    /\ \E pressed \in BOOLEAN :
         shown' = shown \o <<"detailed_view">> \o
                  (IF pressed THEN <<"Download CSV">> ELSE <<>>)
    /\ pc' = "done"
    /\ UNCHANGED <<app, json_input, data, error, raised>>
    /\ UNCHANGED seatVars
    /\ UNCHANGED reportVars

NextSeat ==
    \/ SeatLoad
    \/ SeatSidebar
    \/ SeatFilter
    \/ SeatMetrics
    \/ SeatSummary
    \/ SeatDetail

Init == InitReport \/ InitSeat
Next == NextReport \/ NextSeat
Spec == Init /\ [][Next]_vars

\* ------------------------------------------------------------- claims: helpers
Items(o) == IF o = <<>> THEN <<>> ELSE o[1]
NumberOr0(o) == IF o = <<>> THEN 0 ELSE o[1]
ChatEditorsOf(entry) ==
    IF entry.copilot_ide_chat = <<>> THEN <<>> ELSE Items(entry.copilot_ide_chat[1].editors)
CodeEditorsOf(entry) ==
    IF entry.copilot_ide_code_completions = <<>> THEN <<>>
    ELSE Items(entry.copilot_ide_code_completions[1].editors)
\* (record, editor, model) positions of the chat blocks of d.
ChatTriples(d) ==
    UNION {UNION {{<<r, e, m>> : m \in 1..Len(Items(ChatEditorsOf(d[r])[e].models))} :
                    e \in 1..Len(ChatEditorsOf(d[r]))} :
             r \in 1..Len(d)}
\* (record, editor, model, language) positions of the completions blocks of d.
CompletionQuads(d) ==
    UNION {UNION {UNION {{<<r, e, m, l>> :
                            l \in 1..Len(Items(Items(CodeEditorsOf(d[r])[e].models)[m].languages))} :
                           m \in 1..Len(Items(CodeEditorsOf(d[r])[e].models))} :
                    e \in 1..Len(CodeEditorsOf(d[r]))} :
             r \in 1..Len(d)}
LexLess(u, t) ==
    \E i \in 1..Len(u) : u[i] < t[i] /\ \A j \in 1..(i - 1) : u[j] = t[j]
\* The place of t when T is listed in the order of the input.
Position(T, t) == 1 + Cardinality({u \in T : LexLess(u, t)})
AllObjects(d) == \A r \in 1..Len(d) : d[r].obj

\* C1: flatten_data emits one summary row per record, one chat row per
\* (record, editor, model) and one completion row per (record, editor, model,
\* language), each table in the order the input is read, nothing sorted,
\* merged or dropped.
C1_RowsInInputOrder ==
    (app = "report" /\ pc = "loaded") =>
      LET T == ChatTriples(data)
          Q == CompletionQuads(data)
      IN  /\ Len(df.rows) = Len(data)
          /\ \A r \in 1..Len(data) :
               /\ df.rows[r].date = ParseDate(data[r].date)
               /\ df.rows[r].total_active_users = NumberOr0(data[r].total_active_users)
          /\ Len(ide_chat_df.rows) = Cardinality(T)
          /\ \A t \in T :
               LET row == ide_chat_df.rows[Position(T, t)]
                   editor == ChatEditorsOf(data[t[1]])[t[2]]
                   model == Items(editor.models)[t[3]]
               IN  /\ row.date = ParseDate(data[t[1]].date)
                   /\ row.editor = editor.name
                   /\ row.model = model.name
                   /\ row.total_chats = NumberOr0(model.total_chats)
          /\ Len(code_completion_df.rows) = Cardinality(Q)
          /\ \A q \in Q :
               LET row == code_completion_df.rows[Position(Q, q)]
                   editor == CodeEditorsOf(data[q[1]])[q[2]]
                   model == Items(editor.models)[q[3]]
                   lang == Items(model.languages)[q[4]]
               IN  /\ row.date = ParseDate(data[q[1]].date)
                   /\ row.editor = editor.name
                   /\ row.model = model.name
                   /\ row.language = lang.name
                   /\ row.total_code_suggestions = NumberOr0(lang.total_code_suggestions)
\* Two records, the first with several editors, models and languages, are flattened.
C1_Witness ==
    /\ app = "report" /\ pc = "loaded"
    /\ Len(data) = 2
    /\ Len(ChatEditorsOf(data[1])) = 2 /\ Len(CodeEditorsOf(data[1])) = 2
    /\ Len(ide_chat_df.rows) >= 4
    /\ Len(code_completion_df.rows) >= 4

\* C2: a missing optional key never makes flatten_data fail: a missing number
\* is 0 in the output (is_custom_model is false), a missing block gives no
\* chat or completion row for its record and 0 in its summary column.
C2_MissingKeysDefault ==
    (app = "report" /\ json_input.text = "json" /\ AllObjects(json_input.value)) =>
      /\ raised.at # "flatten"
      /\ pc = "loaded" =>
           LET T == ChatTriples(data)
               Q == CompletionQuads(data)
           IN  /\ \A r \in 1..Len(data) :
                    LET e == data[r]
                        row == df.rows[r]
                    IN  /\ e.total_active_users = <<>> => row.total_active_users = 0
                        /\ e.total_engaged_users = <<>> => row.total_engaged_users = 0
                        /\ e.copilot_ide_chat = <<>> =>
                             /\ row.copilot_ide_chat_total_engaged_users = 0
                             /\ ~ \E t \in T : t[1] = r
                        /\ e.copilot_ide_code_completions = <<>> =>
                             /\ row.copilot_ide_code_completions_total_engaged_users = 0
                             /\ ~ \E q \in Q : q[1] = r
                        /\ e.copilot_dotcom_chat = <<>> =>
                             row.copilot_dotcom_chat_total_engaged_users = 0
                        /\ e.copilot_dotcom_pull_requests = <<>> =>
                             row.copilot_dotcom_pull_requests_total_engaged_users = 0
               /\ Len(ide_chat_df.rows) =
                    SumSeq([r \in 1..Len(data) |->
                              IF data[r].copilot_ide_chat = <<>> THEN 0
                              ELSE Cardinality({t \in T : t[1] = r})])
               /\ Len(code_completion_df.rows) =
                    SumSeq([r \in 1..Len(data) |->
                              IF data[r].copilot_ide_code_completions = <<>> THEN 0
                              ELSE Cardinality({q \in Q : q[1] = r})])
               /\ \A t \in T :
                    LET row == ide_chat_df.rows[Position(T, t)]
                        model == Items(ChatEditorsOf(data[t[1]])[t[2]].models)[t[3]]
                    IN  /\ model.is_custom_model = <<>> => row.is_custom_model = FALSE
                        /\ model.total_chats = <<>> => row.total_chats = 0
                        /\ model.total_engaged_users = <<>> => row.total_engaged_users = 0
                        /\ model.total_chat_copy_events = <<>> =>
                             row.total_chat_copy_events = 0
                        /\ model.total_chat_insertion_events = <<>> =>
                             row.total_chat_insertion_events = 0
               /\ \A q \in Q :
                    LET row == code_completion_df.rows[Position(Q, q)]
                        model == Items(CodeEditorsOf(data[q[1]])[q[2]].models)[q[3]]
                        lang == Items(model.languages)[q[4]]
                    IN  /\ model.is_custom_model = <<>> => row.is_custom_model = FALSE
                        /\ lang.total_engaged_users = <<>> => row.total_engaged_users = 0
                        /\ lang.total_code_acceptances = <<>> =>
                             row.total_code_acceptances = 0
                        /\ lang.total_code_suggestions = <<>> =>
                             row.total_code_suggestions = 0
                        /\ lang.total_code_lines_accepted = <<>> =>
                             row.total_code_lines_accepted = 0
                        /\ lang.total_code_lines_suggested = <<>> =>
                             row.total_code_lines_suggested = 0
\* A record without any block and a record with keys missing at every level
\* of the completions block are flattened.
C2_Witness ==
    /\ app = "report" /\ pc = "loaded"
    /\ Len(data) = 2
    /\ data[1].copilot_ide_chat = <<>> /\ data[1].copilot_ide_code_completions = <<>>
    /\ data[1].total_active_users = <<>>
    /\ \E i \in 1..Len(code_completion_df.rows) :
         /\ code_completion_df.rows[i].total_code_suggestions = 0
         /\ code_completion_df.rows[i].model = <<>>
    /\ \E e \in 1..Len(CodeEditorsOf(data[2])) : CodeEditorsOf(data[2])[e].models = <<>>

\* C3: an empty input sequence gives three tables with zero rows and their
\* full column schema (the date column included), and no error.
C3_EmptyInputKeepsSchema ==
    (app = "report" /\ pc # "start" /\ json_input.text # "malformed"
       /\ json_input.value = <<>>) =>
      /\ df.exists /\ df.rows = <<>> /\ df.columns = SummaryColumns
      /\ ide_chat_df.exists /\ ide_chat_df.rows = <<>> /\ ide_chat_df.columns = ChatColumns
      /\ code_completion_df.exists /\ code_completion_df.rows = <<>>
      /\ code_completion_df.columns = CompletionColumns
      /\ error = "none" /\ pc # "error"

\* The rows of a sequence whose date's day lies in [start, end].
OnDays(rows, start, end) ==
    SelectSeq(rows, LAMBDA row : start <= DateOf(row.date) /\ DateOf(row.date) <= end)
\* C4: the date filter is inclusive on both ends with the same bounds for the
\* three tables: each filtered table holds exactly the unfiltered rows dated
\* from start to end, whether the source date was a date or a date-time, and
\* every date of the filtered chat and completion tables is in the summary.
C4_FilterInclusive ==
    (app = "report" /\ pc = "filtered") =>
      LET all == flatten_data(data)
          start == DateOf(start_date)
          end == DateOf(end_date)
      IN  /\ df.rows = OnDays(all.df.rows, start, end)
          /\ ide_chat_df.rows = OnDays(all.ide_chat_df.rows, start, end)
          /\ code_completion_df.rows = OnDays(all.code_completion_df.rows, start, end)
          /\ \A i \in 1..Len(ide_chat_df.rows) :
               \E j \in 1..Len(df.rows) : df.rows[j].date = ide_chat_df.rows[i].date
          /\ \A i \in 1..Len(code_completion_df.rows) :
               \E j \in 1..Len(df.rows) : df.rows[j].date = code_completion_df.rows[i].date

\* The rows of a language whose acceptance rate is defined.
DefinedRows(rows, language) ==
    SelectSeq(rows, LAMBDA r : r.language = language /\ r.total_code_suggestions # 0)
\* C5: a completion row with total_code_suggestions = 0 has the undefined
\* marker as its acceptance rate, whatever its acceptances, and the mean of a
\* language is taken over the rows whose rate is defined: sum and count.
C5_ZeroSuggestionsUndefined ==
    (app = "report" /\ pc = "visualized") =>
      /\ \A i \in 1..Len(code_completion_df.rows) :
           code_completion_df.rows[i].total_code_suggestions = 0 =>
             code_completion_df.rows[i].acceptance_rate = NaN
      /\ \A g \in 1..Len(fig_acceptance) :
           LET defined == DefinedRows(code_completion_df.rows, fig_acceptance[g].language)
           IN  fig_acceptance[g].acceptance_rate =
                 IF defined = <<>> THEN NaN
                 ELSE LET total == FSumSeq(Column(defined, "acceptance_rate"))
                      IN  Fin(total.n, total.d * Len(defined))

\* The rows of a frame with a given key, and the keys it has.
RowsOfKey(rows, key, k) == SelectSeq(rows, LAMBDA r : r[key] = k)
KeysOf(rows, key) == {rows[i][key] : i \in 1..Len(rows)} \ {<<>>}
\* A grouped table: a row per key of the frame, with the sums of that key's
\* rows, then the one TOTAL row with the column sums of the rows before it.
GroupedWithTotal(metrics, rows, key, cols) ==
    LET n == Len(metrics)
    IN  /\ n = Cardinality(KeysOf(rows, key)) + 1
        /\ metrics[n][key] = Some("TOTAL")
        /\ \A c \in cols : metrics[n][c] = SumSeq(Column(SubSeq(metrics, 1, n - 1), c))
        /\ \A g \in 1..(n - 1) :
             /\ metrics[g][key] \in KeysOf(rows, key)
             /\ \A h \in 1..(n - 1) : metrics[g][key] = metrics[h][key] => g = h
             /\ \A c \in cols :
                  metrics[g][c] = SumSeq(Column(RowsOfKey(rows, key, metrics[g][key]), c))
C7_DeltaNeedsTwoRows ==
    (app = "report" /\ pc \in {"metrics", "done"}) =>
      (Len(df.rows) < 2 => delta = Some(NaN))

\* C8: every seat row carries the root's total_seats (0 when the key is
\* missing), and the total displayed is that value for every date range and
\* team selected, however many rows the filter leaves.
C8_TotalSeatsIsRootValue ==
    (app = "seat") =>
      /\ df.exists =>
           \A i \in 1..Len(df.rows) :
             df.rows[i].total_available_seats = NumberOr0(data.total_seats)
      /\ (total_seats # Absent /\ selected_team # Absent) =>
           total_seats = Some(NumberOr0(data.total_seats))

\* C9: a payload with a non-empty seats list never makes the script raise,
\* whether assigning_team and assignee are on all, some or none of the
\* records: one row per seat, the five derived columns exist and hold the
\* nested value or null, and the team choices and the team summary are built.
C9_MissingTeamNeverRaises ==
    (app = "seat" /\ json_input.text = "json" /\ json_input.value.obj
       /\ Items(json_input.value.seats) # <<>>) =>
      /\ raised = NoException
      /\ pc \in {"loaded", "picked", "filtered", "metrics", "summary", "done"} =>
           /\ Len(df.rows) = Len(Items(json_input.value.seats))
           /\ {"team_name", "team_id", "user_login", "user_type", "user_id"} \subseteq
                df.columns

\* Whether the input text is malformed or flattening it raises.
BadInput ==
    \/ json_input.text = "malformed"
    \/ /\ json_input.text = "json"
       /\ \/ app = "report" /\ ~AllObjects(json_input.value)
          \/ /\ app = "seat"
             /\ \/ ~json_input.value.obj
                \/ LET seats == Items(json_input.value.seats)
                   IN  \E key \in {"assigning_team", "assignee"} :
                         /\ \E i \in 1..Len(seats) : seats[i][key].st = "absent"
                         /\ \E i \in 1..Len(seats) : seats[i][key].st # "absent"
\* C10: in both dashboards malformed JSON or a raising flattener ends the run
\* in the error state with a message, and at no point of the run is a table,
\* metric or chart of that input produced or displayed: no later stage runs.
C10_ErrorsStopPipeline ==
    BadInput =>
      /\ pc \in {"start", "error", "stopped"}
      /\ pc # "start" => error \in {"Invalid JSON format", "Error processing data"}
      /\ shown = <<>>
      /\ ~df.exists /\ ~ide_chat_df.exists /\ ~code_completion_df.exists
      /\ ~filtered_df.exists
      /\ delta = Absent /\ total_seats = Absent /\ fig_acceptance = <<>>
      /\ ide_chat_metrics = <<>> /\ team_summary = <<>>
\* The flattener raised on the second element after reading the first.
C10_Witness ==
    /\ pc \in {"error", "stopped"}
    /\ raised.at = "flatten"
    /\ \/ /\ app = "report"
          /\ Len(json_input.value) = 2
          /\ json_input.value[1].obj /\ ~json_input.value[2].obj
       \/ /\ app = "seat"
          /\ Len(Items(json_input.value.seats)) = 2
          /\ json_input.value.seats[1][1].assigning_team.st = "val"
          /\ json_input.value.seats[1][2].assigning_team.st = "absent"

\* C11: in both dashboards malformed JSON and a schema-shape error give two
\* different error signals: the one for malformed JSON is never the one a
\* schema-shape error gives, and it is raised before flattening is attempted.
C11_SyntaxErrorDistinctSignal ==
    /\ raised.at = "parse" =>
         /\ error # "none"
         /\ error # "Error processing data"
         /\ ~df.exists /\ ~ide_chat_df.exists /\ ~code_completion_df.exists
    /\ raised.at = "flatten" =>
         /\ error # "none"
         /\ error # "Invalid JSON format"

\* The number of rows whose last_activity_at is a timestamp; a frame without
\* the column has none.
ActiveRows(frame) ==
    IF "last_activity_at" \in frame.columns
    THEN Len(SelectSeq(frame.rows, LAMBDA row : row.last_activity_at # <<>>))
    ELSE 0
\* C12: a seat whose last_activity_at is null or missing, also when no seat of
\* the payload has the key, gives a row with last_activity_at null that
\* counts as inactive: for every filtered table Active Users is the number of
\* rows with a non-null last_activity_at, computing it raises nothing, and
\* active plus inactive rows are the assigned seats.
C12_NeverActiveIsInactive ==
    (app = "seat" /\ assigned_seats # Absent /\ selected_team # Absent) =>
      /\ "last_activity_at" \in filtered_df.columns
      /\ raised.at # "active_users"
      /\ active_users = Some(ActiveRows(filtered_df))
      /\ active_users # Absent =>
           active_users[1] + (Len(filtered_df.rows) - ActiveRows(filtered_df)) =
             assigned_seats[1]

====
